---- MODULE Spec2Model ----
(***************************************************************************)
(* A state-machine model of dragonfly_automation:                          *)
(*   - FOVClassifier.classify_raw_fov and its error-catching stage wrapper *)
(*     (fov_classifier.py), checked under SpecFOV;                         *)
(*   - the device operations move_z, autofocus, change_channel and the     *)
(*     autoexposure loop (operations.py), checked under SpecOps;           *)
(*   - StageVisitationManager (utils.py), checked under SpecSVM;           *)
(*   - FOVClassifier.save, load and train and the files of the cache       *)
(*     directory (fov_classifier.py), checked under SpecCache;             *)
(*   - the functions assess_confluency (confluency_assessments.py),        *)
(*     to_uint8, well_id_to_position and                                   *)
(*     interpolate_focusdrive_positions_from_corners (utils.py) and        *)
(*     check_slice_for_overexposure (operations.py), checked under SpecLib.*)
(* A z position that the interpolation computes is an exact fraction.      *)
(* A Python string that the code parses or matches is the sequence of its  *)
(* characters.                                                             *)
(* Python None is the string "None" in string-valued fields and -1 in      *)
(* fields that hold a count or an index.  Laser powers and exposure times  *)
(* are fixed-point numbers in thousandths.                                 *)
(***************************************************************************)
EXTENDS Integers, Sequences, FiniteSets, TLC

VARIABLES
    self,             \* the FOVClassifier instance (its attributes)
    fov_pc,           \* position of the running classify_raw_fov call
    image,            \* argument image of the running call
    mask,             \* local mask
    positions,        \* local positions (number of rows, -1 for None)
    features,         \* local features (num_nuclei, -1 for None)
    otsu_thresh,      \* the Li threshold measured by are_nuclei_in_fov (-1: not measured)
    executed,         \* names of the wrapped stages whose body ran in this call
    body_raised,      \* name of the stage whose body raised in this call
    fov_raised,       \* the exception that left classify_raw_fov
    fov_result,       \* the value classify_raw_fov returned
    fov_calls,        \* number of classify_raw_fov calls started
    fov_csv,          \* fov-assessment.csv: number of rows and the last row
    fov_images,       \* image files written under fov-images
    messages          \* messages delivered to the external event logger:
                      \* their number and the last one

VARIABLES
    mm_core,               \* the hardware behind the core facade: PiezoZ position,
                           \* laser power, exposure, camera gain, channel config
    channel_settings,      \* the ChannelSettings object handed to the operations
    stack_settings,        \* the StackSettings object
    autoexposure_settings, \* the AutoexposureSettings object
    ops_pc,                \* position of the running operation
    ops_count,             \* number of operations started
    core_calls,            \* calls made on mm_core / the autofocus plugin by the
                           \* running operation, in order
    ops_raised,            \* the exception that left the operation
    ops_result,            \* the values the operation returned
    move_z_args,           \* arguments of the running move_z call and the stage
                           \* position when it was made
    current_z_position,    \* local of autoexposure
    scene,                 \* the sample under the objective during autoexposure
    ae_start,              \* stage position and settings when autoexposure started
    ae_sweep               \* snaps taken since the sweep last (re)started

VARIABLES
    svm,                   \* the StageVisitationManager instance (its attributes)
    svm_pc,                \* "none" before construction, then the outcome of
                           \* the last go_to_next_well call
    svm_calls,             \* number of go_to_next_well calls made
    svm_raised,            \* the exception that left the last call
    stage_attempts,        \* the go_to_position attempts of the last call, in
                           \* order: the position index and what happened
    xy_stage               \* index of the position the XY stage is at (-1: the
                           \* stage was never commanded)

svm_vars == <<svm, svm_pc, svm_calls, svm_raised, stage_attempts, xy_stage>>

VARIABLES
    current_validation_results, \* attribute of the classifier ("unset": the
                                \* attribute does not exist)
    cached_validation_results,  \* attribute of the classifier
    training_data,              \* attribute of the classifier
    cache_dir,                  \* the files training_data.csv and
                                \* validation_results.json ("absent" or content)
    cache_op,                   \* the last call of save, load, train or
                                \* process_training_data and its argument
    cache_raised,               \* the exception that left that call
    cache_before,               \* the files when that call was made
    saved_before,               \* save() calls that had succeeded by then
    saved,                      \* save() calls that succeeded
    cache_calls                 \* number of calls made

cache_vars == <<current_validation_results, cached_validation_results,
                training_data, cache_dir, cache_op, cache_raised, cache_before,
                saved_before, saved, cache_calls>>

VARIABLES
    lib_pc,            \* the function that was called last ("idle": none)
    confluency_call,   \* assess_confluency: the features of the snap and what
                       \* the call returned
    uint8_call,        \* to_uint8: the pixels of the image and of the result
    well_call,         \* well_id_to_position: the label and what happened
    slice_call,        \* check_slice_for_overexposure: arguments and result
    interp_call        \* interpolate_focusdrive_positions_from_corners:
                       \* arguments, the position list read and the one returned

lib_vars == <<lib_pc, confluency_call, uint8_call, well_call, slice_call,
              interp_call>>

ext_vars == <<svm_vars, cache_vars, lib_vars>>

ops_vars == <<mm_core, channel_settings, stack_settings, autoexposure_settings,
              ops_pc, ops_count, core_calls, ops_raised, ops_result,
              move_z_args, current_z_position, scene, ae_start, ae_sweep>>

fov_vars == <<self, fov_pc, image, mask, positions, features, otsu_thresh,
              executed, body_raised, fov_raised, fov_result, fov_calls, fov_csv,
              fov_images, messages>>

-----------------------------------------------------------------------------
(* Bounds *)
MaxWells == 3        \* longest list of wells to visit
MaxVisits == 4       \* go_to_next_well calls made on one manager
MaxRegionRows == 2   \* rows of wells of a plate region
MaxRegionCols == 3   \* columns of wells of a plate region
MaxSitesPerWell == 2 \* positions per well
ImageLen == 4        \* pixels of an image handed to to_uint8
MaxLabelLen == 3     \* characters of a label handed to well_id_to_position
MaxCacheCalls == 5   \* calls of save, load, train, process_training_data

MaxCalls == 2          \* classify_raw_fov calls per behaviour
MaxOps == 2            \* device operations per behaviour
MaxCount == 150        \* largest nucleus count the candidacy rule is evaluated on
MaxPositionInd == 0    \* largest position index passed to classify_raw_fov

-----------------------------------------------------------------------------
(* Values *)

None == "None"
Unset == "unset"       \* an attribute that has not been assigned yet
NoCount == -1
NoPositionInd == -1

PyBool(b) == IF b THEN "True" ELSE "False"

NoErrorInfo == [method_name |-> None, error_message |-> None]
NoException == [type |-> None, origin |-> None]

\* An image argument: whether it is an np.ndarray, its dtype, its number of
\* dimensions and its first two shape entries.
Img(a, d, n, s) == [isarray |-> a, dtype |-> d, ndim |-> n, shape |-> s]
Images ==
    { Img(FALSE, None, 0, <<0, 0>>),              \* not an array (a list, None)
      Img(TRUE, "uint16", 2, <<1024, 1024>>),     \* a valid raw FOV
      Img(TRUE, "uint8", 2, <<1024, 1024>>),
      Img(TRUE, "uint16", 3, <<1024, 1024>>),
      Img(TRUE, "uint16", 2, <<512, 1024>>),
      Img(TRUE, "uint16", 2, <<1024, 512>>),
      Img(TRUE, "uint8", 3, <<512, 512>>),
      Img(TRUE, "uint16", 3, <<1024, 512>>) }

\* Li thresholds an image can have (the background level is around 500)
LiThresholds == {500, 1000, 1001}

\* numbers of nucleus positions find_nucleus_positions can return
NucleusCounts == {0, 9, 10, 55, 100, 101}

PositionInds == {NoPositionInd} \cup 0..MaxPositionInd

image_size == 1024
min_otsu_thresh == 1000
min_num_nuclei == 10
max_num_nuclei == 100

EmptyLogInfo(position_ind) ==
    [position_ind |-> position_ind, raw_image |-> None, positions |-> NoCount,
     features |-> NoCount, error_info |-> NoErrorInfo, decision |-> None,
     reason |-> None]

-----------------------------------------------------------------------------
(* FOVClassifier *)

\* make_decision without its early return
make_decision_unguarded(s, decision, reason, error_info) ==
    [s EXCEPT !.decision_flag = decision,
              !.decision_has_been_made = "True",
              !.log_info = [@ EXCEPT !.error_info = error_info,
                                     !.decision = decision,
                                     !.reason = reason]]

\* make_decision: a no-op once an error occurred or a decision was made
make_decision(s, decision, reason, error_info) ==
    IF s.error_has_occured = "True" \/ s.decision_has_been_made = "True"
    THEN s
    ELSE [s EXCEPT !.decision_flag = decision,
                   !.decision_has_been_made = "True",
                   !.log_info = [@ EXCEPT !.error_info = error_info,
                                          !.decision = decision,
                                          !.reason = reason]]

\* (the reason string of the source, without its backquotes)
ErrorReason(method_name) == "Error in method FOVClassifier." \o method_name
ErrorInfo(method_name) ==
    [method_name |-> method_name, error_message |-> "error in " \o method_name]

\* catch_errors with the error flag raised before the decision is made
catch_errors_flag_first(s, method_name, raises, value, none) ==
    IF s.mode = "training"
    THEN [self |-> s, result |-> IF raises THEN none ELSE value,
          ran |-> TRUE, body_raised |-> raises, propagated |-> raises]
    ELSE IF s.error_has_occured = "True" \/ s.decision_has_been_made = "True"
    THEN [self |-> s, result |-> none, ran |-> FALSE, body_raised |-> FALSE,
          propagated |-> FALSE]
    ELSE IF raises
    THEN [self |-> make_decision([s EXCEPT !.error_has_occured = "True"], "False",
                                 ErrorReason(method_name), ErrorInfo(method_name)),
          result |-> none, ran |-> TRUE, body_raised |-> TRUE,
          propagated |-> FALSE]
    ELSE [self |-> s, result |-> value, ran |-> TRUE, body_raised |-> FALSE,
          propagated |-> FALSE]

\* catch_errors: the wrapper around every stage.  raises tells whether the
\* stage body raises on its arguments, value what it returns otherwise and
\* none is the representation of None for that stage.
\* Result: the instance afterwards, the wrapper's return value, whether the
\* body ran and whether an exception left the wrapper.
catch_errors(s, method_name, raises, value, none) ==
    IF s.mode = "training"
    THEN [self |-> s, result |-> IF raises THEN none ELSE value,
          ran |-> TRUE, body_raised |-> raises, propagated |-> raises]
    ELSE IF s.error_has_occured = "True" \/ s.decision_has_been_made = "True"
    THEN [self |-> s, result |-> none, ran |-> FALSE, body_raised |-> FALSE,
          propagated |-> FALSE]
    ELSE IF raises
    THEN [self |-> [make_decision(s, "False", ErrorReason(method_name),
                                  ErrorInfo(method_name))
                        EXCEPT !.error_has_occured = "True"],
          result |-> none, ran |-> TRUE, body_raised |-> TRUE,
          propagated |-> FALSE]
    ELSE [self |-> s, result |-> value, ran |-> TRUE, body_raised |-> FALSE,
          propagated |-> FALSE]

NoValidation == [flag |-> FALSE, message |-> "no result"]

\* validate_raw_fov rejecting a shape only when both sides are wrong
validate_raw_fov_both_sides(im) ==
    IF ~im.isarray THEN [flag |-> FALSE, message |-> "Image is not an np.ndarray"]
    ELSE IF im.dtype # "uint16" THEN [flag |-> FALSE, message |-> "Image is not uint16"]
    ELSE IF im.ndim # 2 THEN [flag |-> FALSE, message |-> "Image is not 2D"]
    ELSE IF im.shape[1] # image_size /\ im.shape[2] # image_size
         THEN [flag |-> FALSE, message |-> "Image shape is not (1024, 1024)"]
    ELSE [flag |-> TRUE, message |-> None]

\* body of validate_raw_fov
validate_raw_fov(im) ==
    IF ~im.isarray THEN [flag |-> FALSE, message |-> "Image is not an np.ndarray"]
    ELSE IF im.dtype # "uint16" THEN [flag |-> FALSE, message |-> "Image is not uint16"]
    ELSE IF im.ndim # 2 THEN [flag |-> FALSE, message |-> "Image is not 2D"]
    ELSE IF im.shape[1] # image_size \/ im.shape[2] # image_size
         THEN [flag |-> FALSE, message |-> "Image shape is not (1024, 1024)"]
    ELSE [flag |-> TRUE, message |-> None]

\* are_nuclei_in_fov accepting a threshold equal to the minimum
are_nuclei_in_fov_inclusive(thresh) == thresh >= min_otsu_thresh

\* body of are_nuclei_in_fov, given the Li threshold of the image
are_nuclei_in_fov(thresh) == thresh > min_otsu_thresh

\* is_fov_candidate rejecting the minimum number of nuclei
is_fov_candidate_exclusive(num_positions) ==
    ~(num_positions <= min_num_nuclei \/ num_positions > max_num_nuclei)

\* body of is_fov_candidate, given the number of positions
is_fov_candidate(num_positions) ==
    ~(num_positions < min_num_nuclei \/ num_positions > max_num_nuclei)

Ran(r, method_name) == IF r.ran THEN Append(executed, method_name) ELSE executed

StageException(method_name) == [type |-> "Exception", origin |-> method_name]

\* one stage call of classify_raw_fov has been made with outcome r
AfterStage(r, method_name, next_pc) ==
    /\ executed' = Ran(r, method_name)
    /\ body_raised' = IF r.body_raised THEN method_name ELSE body_raised
    /\ IF r.propagated
       THEN /\ fov_pc' = "raised"
            /\ fov_raised' = StageException(method_name)
       ELSE /\ fov_pc' = next_pc
            /\ UNCHANGED fov_raised

\* classify_raw_fov, lines 282-291: reset the decision state and the log info
ClassifyRawFov ==
    /\ fov_pc = "idle"
    /\ fov_calls < MaxCalls
    /\ \E im \in Images, position_ind \in PositionInds :
        /\ image' = im
        /\ self' = [self EXCEPT !.error_has_occured = "False",
                                !.decision_has_been_made = "False",
                                !.log_info = EmptyLogInfo(position_ind)]
    /\ fov_pc' = "validate"
    /\ fov_calls' = fov_calls + 1
    /\ UNCHANGED <<mask, positions, features, otsu_thresh, executed, body_raised,
                   fov_raised, fov_result, fov_csv, fov_images, messages>>
    /\ UNCHANGED <<ops_vars, ext_vars>>

\* classify_raw_fov, lines 298-303
Validate ==
    /\ fov_pc = "validate"
    /\ LET r == catch_errors(self, "validate_raw_fov", FALSE,
                             validate_raw_fov(image), NoValidation)
           s == r.self
       IN /\ self' = IF r.result # NoValidation
                     THEN IF r.result.flag
                          THEN [s EXCEPT !.log_info.raw_image = "image"]
                          ELSE make_decision(s, "False", r.result.message, NoErrorInfo)
                     ELSE s
          /\ AfterStage(r, "validate_raw_fov", "are_nuclei_in_fov")
    /\ UNCHANGED <<image, mask, positions, features, otsu_thresh, fov_result,
                   fov_calls, fov_csv, fov_images, messages>>
    /\ UNCHANGED <<ops_vars, ext_vars>>

\* classify_raw_fov, lines 306-308
AreNucleiInFov ==
    /\ fov_pc = "are_nuclei_in_fov"
    /\ \E raises \in BOOLEAN, thresh \in LiThresholds :
        LET r == catch_errors(self, "are_nuclei_in_fov", raises,
                              PyBool(are_nuclei_in_fov(thresh)), None)
        IN /\ otsu_thresh' = IF r.ran /\ ~raises THEN thresh ELSE NoCount
           /\ self' = IF r.propagated THEN r.self
                      ELSE IF r.result # "True"
                      THEN make_decision(r.self, "False", "No nuclei in the FOV", NoErrorInfo)
                      ELSE r.self
           /\ AfterStage(r, "are_nuclei_in_fov", "generate_background_mask")
    /\ UNCHANGED <<image, mask, positions, features, fov_result, fov_calls,
                   fov_csv, fov_images, messages>>
    /\ UNCHANGED <<ops_vars, ext_vars>>

\* classify_raw_fov, line 311
GenerateBackgroundMask ==
    /\ fov_pc = "generate_background_mask"
    /\ \E raises \in BOOLEAN :
        LET r == catch_errors(self, "generate_background_mask", raises, "mask", None)
        IN /\ mask' = r.result
           /\ self' = r.self
           /\ AfterStage(r, "generate_background_mask", "find_nucleus_positions")
    /\ UNCHANGED <<image, positions, features, otsu_thresh, fov_result, fov_calls,
                   fov_csv, fov_images, messages>>
    /\ UNCHANGED <<ops_vars, ext_vars>>

\* classify_raw_fov, lines 314-315
FindNucleusPositions ==
    /\ fov_pc = "find_nucleus_positions"
    /\ \E raises \in BOOLEAN, n \in NucleusCounts :
        LET r == catch_errors(self, "find_nucleus_positions", raises, n, NoCount)
        IN /\ positions' = r.result
           /\ self' = IF r.propagated THEN r.self
                      ELSE [r.self EXCEPT !.log_info.positions = r.result]
           /\ AfterStage(r, "find_nucleus_positions", "is_fov_candidate")
    /\ UNCHANGED <<image, mask, features, otsu_thresh, fov_result, fov_calls,
                   fov_csv, fov_images, messages>>
    /\ UNCHANGED <<ops_vars, ext_vars>>

\* classify_raw_fov, lines 318-320
IsFovCandidate ==
    /\ fov_pc = "is_fov_candidate"
    /\ LET r == catch_errors(self, "is_fov_candidate", FALSE,
                             PyBool(is_fov_candidate(positions)), None)
       IN /\ self' = IF r.result # "True"
                     THEN make_decision(r.self, "False", "FOV is not a candidate", NoErrorInfo)
                     ELSE r.self
          /\ AfterStage(r, "is_fov_candidate", "calculate_features")
    /\ UNCHANGED <<image, mask, positions, features, otsu_thresh, fov_result,
                   fov_calls, fov_csv, fov_images, messages>>
    /\ UNCHANGED <<ops_vars, ext_vars>>

\* classify_raw_fov, lines 323-324
CalculateFeatures ==
    /\ fov_pc = "calculate_features"
    /\ \E raises \in BOOLEAN :
        LET r == catch_errors(self, "calculate_features", raises, positions, NoCount)
        IN /\ features' = r.result
           /\ self' = IF r.propagated THEN r.self
                      ELSE [r.self EXCEPT !.log_info.features = r.result]
           /\ AfterStage(r, "calculate_features", "predict")
    /\ UNCHANGED <<image, mask, positions, otsu_thresh, fov_result, fov_calls,
                   fov_csv, fov_images, messages>>
    /\ UNCHANGED <<ops_vars, ext_vars>>

\* classify_raw_fov, lines 328-329
Predict ==
    /\ fov_pc = "predict"
    /\ \E raises \in BOOLEAN, prediction \in BOOLEAN :
        LET r == catch_errors(self, "predict", raises, PyBool(prediction), None)
        IN /\ self' = IF r.propagated THEN r.self
                      ELSE make_decision(r.self, r.result, "Model prediction", NoErrorInfo)
           /\ AfterStage(r, "predict", "log")
    /\ UNCHANGED <<image, mask, positions, features, otsu_thresh, fov_result,
                   fov_calls, fov_csv, fov_images, messages>>
    /\ UNCHANGED <<ops_vars, ext_vars>>

NoMessage == [accepted |-> FALSE, reason |-> "no message"]
NoRow == [position_ind |-> NoPositionInd, decision |-> None, reason |-> None,
          method_name |-> None, has_features |-> FALSE]

\* the rejection/acceptance message handed to the external event logger
LoggerMessage(log_info) ==
    IF log_info.decision = "True"
    THEN [accepted |-> TRUE, reason |-> None]
    ELSE [accepted |-> FALSE, reason |-> log_info.reason]

\* the row appended to fov-assessment.csv
LogRow(log_info) ==
    [position_ind |-> log_info.position_ind, decision |-> log_info.decision,
     reason |-> log_info.reason, method_name |-> log_info.error_info.method_name,
     has_features |-> log_info.features # NoCount]

\* the image files written for one logged FOV
LoggedImages(log_info) ==
    IF log_info.raw_image = None THEN {}
    ELSE {<<log_info.position_ind, "RAW">>, <<log_info.position_ind, "UINT8">>}
         \cup (IF log_info.positions # NoCount
               THEN {<<log_info.position_ind, "ANT">>} ELSE {})

\* log_classification_info, line 382: if position_ind is None
position_ind_is_None_unchecked(log_info) == FALSE
position_ind_is_None(log_info) == log_info.position_ind = NoPositionInd

\* classify_raw_fov, lines 332-333: log_classification_info, then return the flag
LogClassificationInfo ==
    /\ fov_pc = "log"
    /\ LET log_info == self.log_info IN
       IF self.log_dir = None
       THEN /\ fov_pc' = "returned"
            /\ fov_result' = self.decision_flag
            /\ UNCHANGED <<fov_raised, fov_csv, fov_images, messages>>
       ELSE /\ messages' = IF self.external_event_logger # None
                           THEN [count |-> messages.count + 1,
                                 last |-> LoggerMessage(log_info)]
                           ELSE messages
            /\ IF position_ind_is_None(log_info)
               THEN /\ fov_pc' = "raised"
                    /\ fov_raised' = [type |-> "ValueError",
                                      origin |-> "log_classification_info"]
                    /\ UNCHANGED <<fov_result, fov_csv, fov_images>>
               ELSE /\ fov_csv' = [num_rows |-> fov_csv.num_rows + 1,
                                    last_row |-> LogRow(log_info)]
                    /\ fov_images' = fov_images \cup LoggedImages(log_info)
                    /\ fov_pc' = "returned"
                    /\ fov_result' = self.decision_flag
                    /\ UNCHANGED fov_raised
    /\ UNCHANGED <<self, image, mask, positions, features, otsu_thresh, executed,
                   body_raised, fov_calls>>
    /\ UNCHANGED <<ops_vars, ext_vars>>

\* the call is over: its arguments and locals are gone
FovFinish ==
    /\ fov_pc \in {"returned", "raised"}
    /\ fov_pc' = "idle"
    /\ image' = CHOOSE im \in Images : TRUE
    /\ mask' = None
    /\ positions' = NoCount
    /\ features' = NoCount
    /\ otsu_thresh' = NoCount
    /\ executed' = <<>>
    /\ body_raised' = None
    /\ fov_raised' = NoException
    /\ fov_result' = Unset
    /\ UNCHANGED <<self, fov_calls, fov_csv, fov_images, messages>>
    /\ UNCHANGED <<ops_vars, ext_vars>>

\* the client assigns self.external_event_logger after instantiation
AssignExternalEventLogger ==
    /\ fov_pc = "idle"
    /\ self.external_event_logger = None
    /\ self' = [self EXCEPT !.external_event_logger = "logger"]
    /\ UNCHANGED <<fov_pc, image, mask, positions, features, otsu_thresh, executed,
                   body_raised, fov_raised, fov_result, fov_calls, fov_csv,
                   fov_images, messages>>
    /\ UNCHANGED <<ops_vars, ext_vars>>

\* FOVClassifier.__init__
FovInit ==
    /\ \E mode \in {"training", "prediction"}, log_dir \in {None, "log_dir"} :
         self = [mode |-> mode, log_dir |-> log_dir, external_event_logger |-> None,
                 error_has_occured |-> Unset, decision_has_been_made |-> Unset,
                 decision_flag |-> Unset, log_info |-> EmptyLogInfo(NoPositionInd)]
    /\ fov_pc = "idle"
    /\ image = CHOOSE im \in Images : TRUE
    /\ mask = None
    /\ positions = NoCount
    /\ features = NoCount
    /\ otsu_thresh = NoCount
    /\ executed = <<>>
    /\ body_raised = None
    /\ fov_raised = NoException
    /\ fov_result = Unset
    /\ fov_calls = 0
    /\ fov_csv = [num_rows |-> 0, last_row |-> NoRow]
    /\ fov_images = {}
    /\ messages = [count |-> 0, last |-> NoMessage]

FovNext ==
    \/ ClassifyRawFov
    \/ Validate
    \/ AreNucleiInFov
    \/ GenerateBackgroundMask
    \/ FindNucleusPositions
    \/ IsFovCandidate
    \/ CalculateFeatures
    \/ Predict
    \/ LogClassificationInfo
    \/ FovFinish
    \/ AssignExternalEventLogger

-----------------------------------------------------------------------------
(* operations.py *)

\* Python values passed as the position argument of move_z
Num(v) == [kind |-> "num", v |-> v]
NumStr(v) == [kind |-> "numstr", v |-> v]       \* a string such as "5"
NaN == [kind |-> "nan", v |-> 0]
Inf == [kind |-> "inf", v |-> 1]
NegInf == [kind |-> "inf", v |-> -1]
Str == [kind |-> "str", v |-> 0]                \* a string such as "abc"
PyNone == [kind |-> "none", v |-> 0]
PyTrue == [kind |-> "bool", v |-> 1]
Raised == [kind |-> "raised", v |-> 0]          \* marks a call that raised

PositionArgs ==
    {Num(0), Num(5), Num(-7), Num(30), NumStr(5), NaN, Inf, NegInf, Str, PyNone}
Kinds == {"relative", "absolute", "sideways", None}

IsFinite(x) == x.kind = "num"

Call(f, arg) == [f |-> f, arg |-> arg]
Exc(type, message) == [type |-> type, origin |-> message]

\* float(position): the float, or the exception float() raises
float(position) ==
    CASE position.kind \in {"num", "numstr"} -> [raises |-> None, value |-> Num(position.v)]
      [] position.kind \in {"nan", "inf"} -> [raises |-> None, value |-> position]
      [] position.kind = "str" -> [raises |-> "ValueError", value |-> position]
      [] position.kind = "none" -> [raises |-> "TypeError", value |-> position]

isnan(x) == x.kind = "nan"

\* the stage device: where it is after a move command.  It reaches a finite
\* target exactly and does not move on a target that is not a number.
Landing(z, target, kind) ==
    IF IsFinite(target)
    THEN IF kind = "absolute" THEN target.v ELSE z + target.v
    ELSE z

\* move_z without the nan check
move_z_no_nan_check(core, position, kind) ==
    LET f == float(position)
        fail(e) == [raised |-> e, calls |-> <<>>, core |-> core, ret |-> 0]
    IN IF kind \notin {"relative", "absolute"}
       THEN fail(Exc("ValueError", "kind must be either relative or absolute"))
       ELSE IF f.raises = "ValueError"
       THEN fail(Exc("TypeError", "position cannot be coerced to float"))
       ELSE IF f.raises = "TypeError"
       THEN fail(Exc("TypeError", "float() argument must be a string or a number"))
       ELSE [raised |-> NoException,
             calls |-> << Call(IF kind = "absolute" THEN "setPosition"
                               ELSE "setRelativePosition", f.value),
                          Call("waitForDevice", Num(0)),
                          Call("getPosition", Num(0)) >>,
             core |-> [core EXCEPT !.z = Landing(core.z, f.value, kind)],
             ret |-> Landing(core.z, f.value, kind)]

\* move_z: the exception raised (if any), the calls made on the core, the
\* core afterwards and the returned actual position
move_z(core, position, kind) ==
    LET f == float(position)
        fail(e) == [raised |-> e, calls |-> <<>>, core |-> core, ret |-> 0]
    IN IF kind \notin {"relative", "absolute"}
       THEN fail(Exc("ValueError", "kind must be either relative or absolute"))
       ELSE IF f.raises = "ValueError"
       THEN fail(Exc("TypeError", "position cannot be coerced to float"))
       ELSE IF f.raises = "TypeError"
       THEN fail(Exc("TypeError", "float() argument must be a string or a number"))
       ELSE IF isnan(f.value)
       THEN fail(Exc("TypeError", "position cannot be nan"))
       ELSE [raised |-> NoException,
             calls |-> << Call(IF kind = "absolute" THEN "setPosition"
                               ELSE "setRelativePosition", f.value),
                          Call("waitForDevice", Num(0)),
                          Call("getPosition", Num(0)) >>,
             core |-> [core EXCEPT !.z = Landing(core.z, f.value, kind)],
             ret |-> Landing(core.z, f.value, kind)]

NoArgs == [position |-> Num(0), kind |-> "no call", z |-> 0]
NoScene == [bright |-> 0, hot_from |-> 0]
NoStart == [z |-> 0, laser_power |-> 0, exposure_time |-> 0]

\* an operation starts
OpStart ==
    /\ ops_pc = "idle"
    /\ ops_count < MaxOps
    /\ ops_count' = ops_count + 1

\* move_z called by the acquisition program
MoveZ ==
    /\ OpStart
    /\ \E position \in PositionArgs, kind \in Kinds :
        LET r == move_z(mm_core, position, kind)
        IN /\ mm_core' = r.core
           /\ core_calls' = r.calls
           /\ ops_raised' = r.raised
           /\ ops_result' = IF r.raised = NoException THEN <<Num(r.ret)>> ELSE <<>>
           /\ ops_pc' = IF r.raised = NoException THEN "move_z_returned"
                        ELSE "move_z_raised"
           /\ move_z_args' = [position |-> position, kind |-> kind, z |-> mm_core.z]
    /\ UNCHANGED <<channel_settings, stack_settings, autoexposure_settings,
                   current_z_position, scene, ae_start, ae_sweep>>
    /\ UNCHANGED <<fov_vars, ext_vars>>

\* change_channel: the five calls it makes, the last attempted one failing
\* when fail_at is its number (0: none fails)
change_channel(core, cs, fail_at) ==
    LET all == << Call("setConfig", Num(0)), Call("waitForConfig", Num(0)),
                  Call("setProperty:laser", Num(cs.laser_power)),
                  Call("setExposure", Num(cs.exposure_time)),
                  Call("setProperty:Gain", Num(cs.camera_gain)) >>
        done == IF fail_at = 0 THEN 5 ELSE fail_at - 1
    IN [raised |-> IF fail_at = 0 THEN NoException
                   ELSE Exc("Exception", all[fail_at].f),
        calls |-> SubSeq(all, 1, IF fail_at = 0 THEN 5 ELSE fail_at),
        core |-> [core EXCEPT
                    !.config = IF done >= 1 THEN cs.config_name ELSE @,
                    !.laser_power = IF done >= 3 THEN cs.laser_power ELSE @,
                    !.exposure = IF done >= 4 THEN cs.exposure_time ELSE @,
                    !.gain = IF done >= 5 THEN cs.camera_gain ELSE @]]

\* change_channel called by the acquisition program
ChangeChannel ==
    /\ OpStart
    /\ \E fail_at \in 0..5 :
        LET r == change_channel(mm_core, channel_settings, fail_at)
        IN /\ mm_core' = r.core
           /\ core_calls' = r.calls
           /\ ops_raised' = r.raised
           /\ ops_pc' = IF r.raised = NoException THEN "change_channel_returned"
                        ELSE "change_channel_raised"
    /\ ops_result' = <<>>
    /\ UNCHANGED <<channel_settings, stack_settings, autoexposure_settings,
                   move_z_args, current_z_position, scene, ae_start, ae_sweep>>
    /\ UNCHANGED <<fov_vars, ext_vars>>

\* autofocus, line 32: change to the right channel
AutofocusCall ==
    /\ OpStart
    /\ \E fail_at \in 0..5 :
        LET r == change_channel(mm_core, channel_settings, fail_at)
        IN /\ mm_core' = r.core
           /\ core_calls' = r.calls
           /\ ops_raised' = r.raised
           /\ ops_pc' = IF r.raised = NoException THEN "autofocus_fullFocus"
                        ELSE "autofocus_raised"
    /\ ops_result' = <<>>
    /\ UNCHANGED <<channel_settings, stack_settings, autoexposure_settings,
                   move_z_args, current_z_position, scene, ae_start, ae_sweep>>
    /\ UNCHANGED <<fov_vars, ext_vars>>

\* fullFocus without the try/except
try_fullFocus_uncaught(raises) ==
    IF raises THEN Exc("Exception", "fullFocus") ELSE NoException

\* the try/except around fullFocus: the exception that leaves it
try_fullFocus(raises) == NoException

\* autofocus, lines 34-41
AutofocusFullFocus ==
    /\ ops_pc = "autofocus_fullFocus"
    /\ \E raises \in BOOLEAN :
        LET e == try_fullFocus(raises)
        IN /\ core_calls' = core_calls \o
                  << Call("getAutofocusManager", Num(0)),
                     Call("getAutofocusMethod", Num(0)),
                     Call("fullFocus", IF raises THEN Raised ELSE Num(0)) >>
           /\ ops_raised' = e
           /\ ops_pc' = IF e = NoException THEN "autofocus_waitForSystem"
                        ELSE "autofocus_raised"
    /\ UNCHANGED <<mm_core, channel_settings, stack_settings, autoexposure_settings,
                   ops_count, ops_result, move_z_args, current_z_position, scene,
                   ae_start, ae_sweep>>
    /\ UNCHANGED <<fov_vars, ext_vars>>

\* autofocus, line 44
AutofocusWaitForSystem ==
    /\ ops_pc = "autofocus_waitForSystem"
    /\ core_calls' = Append(core_calls, Call("waitForSystem", Num(0)))
    /\ ops_pc' = "autofocus_returned"
    /\ UNCHANGED <<mm_core, channel_settings, stack_settings, autoexposure_settings,
                   ops_count, ops_raised, ops_result, move_z_args,
                   current_z_position, scene, ae_start, ae_sweep>>
    /\ UNCHANGED <<fov_vars, ext_vars>>

\* x * relative_exposure_step, rounded down to thousandths
Times(x, step) == (x * step[1]) \div step[2]

\* check_slice_for_overexposure forgetting to turn down the laser
check_slice_for_overexposure_laser_kept(laser_power, exposure_time, snap_data, settings) ==
    LET slice_was_overexposed == snap_data > settings.max_intensity
        lowered == Times(exposure_time, settings.relative_exposure_step)
    IN IF ~slice_was_overexposed
       THEN [laser_power |-> laser_power, exposure_time |-> exposure_time,
             slice_was_overexposed |-> FALSE]
       ELSE IF lowered < settings.min_exposure_time
       THEN [laser_power |-> laser_power,
             exposure_time |-> settings.default_exposure_time,
             slice_was_overexposed |-> TRUE]
       ELSE [laser_power |-> laser_power, exposure_time |-> lowered,
             slice_was_overexposed |-> TRUE]

\* check_slice_for_overexposure comparing with >= in both tests
check_slice_for_overexposure_inclusive(laser_power, exposure_time, snap_data, settings) ==
    LET slice_was_overexposed == snap_data >= settings.max_intensity
        lowered == Times(exposure_time, settings.relative_exposure_step)
    IN IF ~slice_was_overexposed
       THEN [laser_power |-> laser_power, exposure_time |-> exposure_time,
             slice_was_overexposed |-> FALSE]
       ELSE IF lowered <= settings.min_exposure_time
       THEN [laser_power |-> Times(laser_power, settings.relative_exposure_step),
             exposure_time |-> settings.default_exposure_time,
             slice_was_overexposed |-> TRUE]
       ELSE [laser_power |-> laser_power, exposure_time |-> lowered,
             slice_was_overexposed |-> TRUE]

\* check_slice_for_overexposure, the snap given by its 99.9th percentile
check_slice_for_overexposure(laser_power, exposure_time, snap_data, settings) ==
    LET slice_was_overexposed == snap_data > settings.max_intensity
        lowered == Times(exposure_time, settings.relative_exposure_step)
    IN IF ~slice_was_overexposed
       THEN [laser_power |-> laser_power, exposure_time |-> exposure_time,
             slice_was_overexposed |-> FALSE]
       ELSE IF lowered < settings.min_exposure_time
       THEN [laser_power |-> Times(laser_power, settings.relative_exposure_step),
             exposure_time |-> settings.default_exposure_time,
             slice_was_overexposed |-> TRUE]
       ELSE [laser_power |-> laser_power, exposure_time |-> lowered,
             slice_was_overexposed |-> TRUE]

\* The camera: the 99.9th percentile of a snap at z taken with the laser power
\* and exposure time set on the hardware.  Slices from scene.hot_from upwards
\* hold the bright structure, the others are dim; the signal is proportional
\* to laser power x exposure time and saturates at the 16-bit ceiling.
Min(a, b) == IF a < b THEN a ELSE b
DimBrightness == 1
acquire_snap(sc, core) ==
    LET b == IF core.z >= sc.hot_from THEN sc.bright ELSE DimBrightness
    IN Min(65535, (b * ((core.laser_power * core.exposure) \div 1000)) \div 1000)

Brightness == {50, 100, 1000}
HotFrom == {-100, 4}
Scenes == [bright : Brightness, hot_from : HotFrom]

\* autoexposure, lines 194-201: move to the bottom of the z-stack
AutoexposureCall ==
    /\ OpStart
    /\ \E sc \in Scenes : scene' = sc
    /\ LET r == move_z(mm_core, Num(stack_settings.relative_bottom), "relative")
       IN /\ mm_core' = r.core
          /\ core_calls' = r.calls
          /\ current_z_position' = r.ret
    /\ ae_start' = [z |-> mm_core.z, laser_power |-> channel_settings.laser_power,
                    exposure_time |-> channel_settings.exposure_time]
    /\ ae_sweep' = <<>>
    /\ ops_pc' = "autoexposure_loop"
    /\ ops_raised' = NoException
    /\ ops_result' = <<>>
    /\ UNCHANGED <<channel_settings, stack_settings, autoexposure_settings,
                   move_z_args>>
    /\ UNCHANGED <<fov_vars, ext_vars>>

\* autoexposure, lines 217-221: the working values of the channel follow an
\* over-exposed slice
update_channel_settings_defaults_too(cs, c) ==
    IF c.slice_was_overexposed
    THEN [cs EXCEPT !.laser_power = c.laser_power,
                    !.exposure_time = c.exposure_time,
                    !.default_laser_power = c.laser_power,
                    !.default_exposure_time = c.exposure_time]
    ELSE cs

update_channel_settings(cs, c) ==
    IF c.slice_was_overexposed
    THEN [cs EXCEPT !.laser_power = c.laser_power,
                    !.exposure_time = c.exposure_time]
    ELSE cs

\* autoexposure, lines 203-246: one iteration of the loop
AutoexposureStep ==
    /\ ops_pc = "autoexposure_loop"
    /\ current_z_position <= stack_settings.relative_top
    /\ LET snap_data == acquire_snap(scene, mm_core)
           c == check_slice_for_overexposure(
                    channel_settings.laser_power, channel_settings.exposure_time,
                    snap_data, autoexposure_settings)
           snap == [z |-> mm_core.z, laser_power |-> mm_core.laser_power,
                    exposure_time |-> mm_core.exposure,
                    overexposed |-> c.slice_was_overexposed]
           cs == update_channel_settings(channel_settings, c)
           core1 == IF c.slice_was_overexposed
                    THEN [mm_core EXCEPT !.laser_power = cs.laser_power,
                                         !.exposure = cs.exposure_time]
                    ELSE mm_core
           new_z_position == IF c.slice_was_overexposed
                             THEN stack_settings.relative_bottom
                             ELSE current_z_position + stack_settings.step_size
           r == move_z(core1, Num(new_z_position), "absolute")
       IN /\ channel_settings' = cs
          /\ mm_core' = r.core
          /\ current_z_position' = r.ret
          /\ ae_sweep' = IF c.slice_was_overexposed THEN <<>>
                         ELSE Append(ae_sweep, snap)
          /\ core_calls' = core_calls
                 \o << Call("waitForSystem", Num(0)), Call("snap", Num(mm_core.z)) >>
                 \o (IF c.slice_was_overexposed
                     THEN << Call("setProperty:laser", Num(cs.laser_power)),
                             Call("setExposure", Num(cs.exposure_time)) >>
                     ELSE <<>>)
                 \o r.calls
    /\ UNCHANGED <<stack_settings, autoexposure_settings, ops_pc, ops_count,
                   ops_raised, ops_result, move_z_args, scene, ae_start>>
    /\ UNCHANGED <<fov_vars, ext_vars>>

\* what autoexposure returns (line 248)
autoexposure_return(cs, autoexposure_did_succeed) == <<autoexposure_did_succeed>>

\* autoexposure, line 248: the loop is over
AutoexposureReturn ==
    /\ ops_pc = "autoexposure_loop"
    /\ ~(current_z_position <= stack_settings.relative_top)
    /\ ops_result' = autoexposure_return(channel_settings, PyTrue)
    /\ ops_pc' = "autoexposure_returned"
    /\ UNCHANGED <<mm_core, channel_settings, stack_settings, autoexposure_settings,
                   ops_count, core_calls, ops_raised, move_z_args,
                   current_z_position, scene, ae_start, ae_sweep>>
    /\ UNCHANGED <<fov_vars, ext_vars>>

\* the operation is over
OpsFinish ==
    /\ ops_pc \in {"move_z_returned", "move_z_raised", "change_channel_returned",
                   "change_channel_raised", "autofocus_returned", "autofocus_raised",
                   "autoexposure_returned"}
    /\ ops_pc' = "idle"
    /\ core_calls' = <<>>
    /\ ops_raised' = NoException
    /\ ops_result' = <<>>
    /\ move_z_args' = NoArgs
    /\ current_z_position' = 0
    /\ scene' = NoScene
    /\ ae_start' = NoStart
    /\ ae_sweep' = <<>>
    /\ UNCHANGED <<mm_core, channel_settings, stack_settings, autoexposure_settings,
                   ops_count>>
    /\ UNCHANGED <<fov_vars, ext_vars>>

\* the settings of pipeline_plate_settings.py, in thousandths for laser power
\* and exposure time
dev_stack_settings ==
    [stage_label |-> "PiezoZ", relative_top |-> 16, relative_bottom |-> -10,
     step_size |-> 7]

DEFAULT_LASER_POWER == 10000
DEFAULT_CAMERA_GAIN == 400
DEFAULT_EXPOSURE_TIME == 50000

gfp_channel_settings ==
    [config_group |-> "Channels-EMCCD", config_name |-> "EMCCD_Confocal40_GFP",
     camera_name |-> "Andor EMCCD", laser_line |-> "Andor ILE-A",
     laser_name |-> "Laser 488-Power Setpoint",
     default_laser_power |-> DEFAULT_LASER_POWER,
     default_exposure_time |-> DEFAULT_EXPOSURE_TIME,
     default_camera_gain |-> DEFAULT_CAMERA_GAIN,
     laser_power |-> DEFAULT_LASER_POWER,
     exposure_time |-> DEFAULT_EXPOSURE_TIME,
     camera_gain |-> DEFAULT_CAMERA_GAIN]

pipeline_autoexposure_settings ==
    [min_intensity |-> 16384, max_intensity |-> 32768,
     min_exposure_time |-> 40000, max_exposure_time |-> 500000,
     default_exposure_time |-> DEFAULT_EXPOSURE_TIME,
     min_laser_power |-> 1000,
     relative_exposure_step |-> <<4, 5>>,     \* 0.8
     z_step_size |-> 1]

OpsInit ==
    /\ mm_core = change_channel([z |-> 0, laser_power |-> 0, exposure |-> 0,
                                 gain |-> 0, config |-> None],
                                gfp_channel_settings, 0).core
    /\ channel_settings = gfp_channel_settings
    /\ stack_settings = dev_stack_settings
    /\ autoexposure_settings = pipeline_autoexposure_settings
    /\ ops_pc = "idle"
    /\ ops_count = 0
    /\ core_calls = <<>>
    /\ ops_raised = NoException
    /\ ops_result = <<>>
    /\ move_z_args = NoArgs
    /\ current_z_position = 0
    /\ scene = NoScene
    /\ ae_start = NoStart
    /\ ae_sweep = <<>>

OpsNext ==
    \/ MoveZ
    \/ ChangeChannel
    \/ AutofocusCall
    \/ AutofocusFullFocus
    \/ AutofocusWaitForSystem
    \/ AutoexposureCall
    \/ AutoexposureStep
    \/ AutoexposureReturn
    \/ OpsFinish

-----------------------------------------------------------------------------
(* utils.py: StageVisitationManager *)

\* well ids and position labels, as sequences of characters
B1 == <<"B", "1">>
B9 == <<"B", "9">>
B10 == <<"B", "1", "0">>
C3 == <<"C", "3">>
WellIds == {B1, B9, B10, C3}
Label(well_id, n) == well_id \o <<"-", "S", "i", "t", "e", "_", n>>

\* every list of at most n well ids
RECURSIVE WellLists(_)
WellLists(n) ==
    IF n = 0 THEN {<<>>}
    ELSE LET shorter == WellLists(n - 1)
         IN  shorter \cup {Append(l, w) : l \in shorter, w \in WellIds}

\* the arrays under position_list['POSITIONS'], by their labels
PositionLists ==
    { <<>>,
      <<Label(B9, "0"), Label(B9, "1"), Label(C3, "0")>>,
      <<Label(B1, "0"), Label(C3, "0"), Label(B9, "0")>>,
      <<Label(B10, "0"), Label(B1, "0"), Label(B9, "0"), Label(C3, "0")>> }

\* str.startswith
startswith(str, prefix) ==
    /\ Len(prefix) <= Len(str)
    /\ SubSeq(str, 1, Len(prefix)) = prefix

\* list[::-1]
Reversed_not(l) == l
Reversed(l) == [i \in 1..Len(l) |-> l[Len(l) + 1 - i]]

\* how a go_to_position call can end: it returns, the control bridge raises
\* py4j.protocol.Py4JJavaError, or something else is raised
PositionOutcomes == {"arrived", "Py4JJavaError", "Exception"}

NoSvm ==
    [well_ids_to_visit |-> <<>>, unvisited_well_ids |-> <<>>,
     position_list |-> <<>>, current_well_id |-> <<>>]

\* StageVisitationManager.__init__
Construct ==
    /\ svm_pc = "none"
    /\ \E well_ids_to_visit \in WellLists(MaxWells), position_list \in PositionLists :
          svm' = [well_ids_to_visit |-> well_ids_to_visit,
                  unvisited_well_ids |-> Reversed(well_ids_to_visit),
                  position_list |-> position_list,
                  current_well_id |-> <<>>]
    /\ svm_pc' = "constructed"
    /\ UNCHANGED <<svm_calls, svm_raised, stage_attempts, xy_stage>>
    /\ UNCHANGED <<fov_vars, ops_vars, cache_vars, lib_vars>>

\* the for loop of well_id_to_position_ind: the index (from 0) at which it
\* stops, which is the index of the first matching label when there is one
\* and the last index when there is none; -1 when the loop body never ran
\* and ind was never bound
well_id_to_position_ind(position_list, well_id) ==
    LET matches == {i \in 1..Len(position_list) :
                        startswith(position_list[i], well_id)}
    IN  IF matches = {} THEN Len(position_list) - 1
        ELSE (CHOOSE i \in matches : \A j \in matches : i <= j) - 1

\* operations.go_to_position: command the stage to the position with the
\* given index; on an error the stage is wherever it was
go_to_position(xy, ind, outcome) ==
    [raised |-> IF outcome = "arrived" THEN None ELSE outcome,
     xy |-> IF outcome = "arrived" THEN ind ELSE xy,
     attempt |-> [ind |-> ind, outcome |-> outcome]]

\* the try/except of go_to_next_well around the first go_to_position call:
\* TRUE when the except clause catches what the call raised
catches_any_error(raised) == raised # None
catches_Py4JJavaError(raised) == raised = "Py4JJavaError"

\* go_to_next_well as a function of the manager, the stage and the outcomes
\* of its go_to_position calls
go_to_next_well(s, xy, outcome1, outcome2) ==
    IF s.unvisited_well_ids = <<>>
    THEN \* list.pop() on an empty list
         [svm |-> s, raised |-> "IndexError", attempts |-> <<>>, xy |-> xy]
    ELSE
    LET n == Len(s.unvisited_well_ids)
        popped == [s EXCEPT !.current_well_id = s.unvisited_well_ids[n],
                            !.unvisited_well_ids = SubSeq(s.unvisited_well_ids, 1, n - 1)]
        ind == well_id_to_position_ind(popped.position_list, popped.current_well_id)
        first == go_to_position(xy, ind, outcome1)
        second == go_to_position(first.xy, ind, outcome2)
    IN  IF ind = -1
        THEN \* return ind with ind never assigned
             [svm |-> popped, raised |-> "UnboundLocalError", attempts |-> <<>>,
              xy |-> xy]
        ELSE IF first.raised = None
        THEN [svm |-> popped, raised |-> None, attempts |-> <<first.attempt>>,
              xy |-> first.xy]
        ELSE IF catches_Py4JJavaError(first.raised)
        THEN [svm |-> popped, raised |-> second.raised,
              attempts |-> <<first.attempt, second.attempt>>, xy |-> second.xy]
        ELSE [svm |-> popped, raised |-> first.raised,
              attempts |-> <<first.attempt>>, xy |-> first.xy]

GoToNextWell ==
    /\ svm_pc # "none"
    /\ svm_calls < MaxVisits
    /\ \E outcome1, outcome2 \in PositionOutcomes :
          LET r == go_to_next_well(svm, xy_stage, outcome1, outcome2)
          IN  /\ svm' = r.svm
              /\ svm_raised' = r.raised
              /\ stage_attempts' = r.attempts
              /\ xy_stage' = r.xy
              /\ svm_pc' = IF r.raised = None THEN "arrived" ELSE "raised"
    /\ svm_calls' = svm_calls + 1
    /\ UNCHANGED <<fov_vars, ops_vars, cache_vars, lib_vars>>

SvmInit ==
    /\ svm = NoSvm
    /\ svm_pc = "none"
    /\ svm_calls = 0
    /\ svm_raised = None
    /\ stage_attempts = <<>>
    /\ xy_stage = -1

SvmNext ==
    \/ Construct
    \/ GoToNextWell

-----------------------------------------------------------------------------
(* fov_classifier.py: the training data and validation results of the
   classifier and their files in cache_dir *)

Absent == "absent"
EmptyDir == [training_data_csv |-> Absent, validation_results_json |-> Absent]
\* a cache directory that holds the files of an earlier session
FilledDir == [training_data_csv |-> "data_0", validation_results_json |-> "results_0"]
Datasets == {"data_1", "data_2"}
ValidationResults == {"results_1", "results_2"}

\* what a method call leaves behind: the attributes, the files and the
\* exception that left it
CacheState(cvr, cached, data, dir, raised) ==
    [current_validation_results |-> cvr, cached_validation_results |-> cached,
     training_data |-> data, cache_dir |-> dir, raised |-> raised]

\* os.path.isfile(filepath) and not overwrite
refuses_overwrite_never(dir, overwrite) == FALSE
refuses_overwrite(dir, overwrite) ==
    dir.training_data_csv # Absent /\ ~overwrite

\* FOVClassifier.save
save(mode, cvr, cached, data, dir, overwrite) ==
    IF mode # "training"
    THEN CacheState(cvr, cached, data, dir, "ValueError")
    ELSE IF cvr = Unset
    THEN \* the attribute is read before anything created it
         CacheState(cvr, cached, data, dir, "AttributeError")
    ELSE IF cvr = None
    THEN CacheState(cvr, cached, data, dir, "ValueError")
    ELSE IF refuses_overwrite(dir, overwrite)
    THEN CacheState(cvr, cached, data, dir, "ValueError")
    ELSE CacheState(cvr, cached, data,
                    [training_data_csv |-> data, validation_results_json |-> cvr],
                    None)

\* load resetting the validation results only once both files are read
load_resets_on_success(cvr, cached, data, dir) ==
    IF dir.training_data_csv = Absent
    THEN CacheState(cvr, cached, data, dir, "FileNotFoundError")
    ELSE IF dir.validation_results_json = Absent
    THEN CacheState(cvr, cached, dir.training_data_csv, dir, "FileNotFoundError")
    ELSE CacheState(None, dir.validation_results_json, dir.training_data_csv,
                    dir, None)

\* FOVClassifier.load
load(cvr, cached, data, dir) ==
    IF dir.training_data_csv = Absent
    THEN CacheState(None, cached, data, dir, "FileNotFoundError")
    ELSE IF dir.validation_results_json = Absent
    THEN CacheState(None, cached, dir.training_data_csv, dir, "FileNotFoundError")
    ELSE CacheState(None, dir.validation_results_json, dir.training_data_csv,
                    dir, None)

\* FOVClassifier.train: cross-validates and fits the model on training_data;
\* results is what the cross-validation yields, fails when it raises
train(cvr, cached, data, dir, results, fails) ==
    IF data = Unset
    THEN CacheState(cvr, cached, data, dir, "AttributeError")
    ELSE IF fails
    THEN CacheState(cvr, cached, data, dir, "Exception")
    ELSE CacheState(results, cached, data, dir, None)

\* FOVClassifier.process_training_data
process_training_data(cvr, cached, data, dir, new_data) ==
    CacheState(cvr, cached, new_data, dir, None)

CacheCall(name, arg, after) ==
    /\ cache_calls' = cache_calls + 1
    /\ cache_op' = [name |-> name, arg |-> arg]
    /\ cache_before' = cache_dir
    /\ saved_before' = saved
    /\ saved' = IF name = "save" /\ after.raised = None THEN saved + 1 ELSE saved
    /\ current_validation_results' = after.current_validation_results
    /\ cached_validation_results' = after.cached_validation_results
    /\ training_data' = after.training_data
    /\ cache_dir' = after.cache_dir
    /\ cache_raised' = after.raised
    /\ UNCHANGED <<fov_vars, ops_vars, svm_vars, lib_vars>>

Save ==
    /\ cache_calls < MaxCacheCalls
    /\ \E overwrite \in BOOLEAN :
        CacheCall("save", IF overwrite THEN "True" ELSE "False",
                  save(self.mode, current_validation_results,
                       cached_validation_results, training_data, cache_dir,
                       overwrite))

Load ==
    /\ cache_calls < MaxCacheCalls
    /\ CacheCall("load", None,
              load(current_validation_results, cached_validation_results,
                   training_data, cache_dir))

Train ==
    /\ cache_calls < MaxCacheCalls
    /\ \E results \in ValidationResults, fails \in BOOLEAN :
        CacheCall("train", "label",
                  train(current_validation_results, cached_validation_results,
                        training_data, cache_dir, results, fails))

ProcessTrainingData ==
    /\ cache_calls < MaxCacheCalls
    /\ \E data \in Datasets :
        CacheCall("process_training_data", data,
                  process_training_data(current_validation_results,
                                        cached_validation_results, training_data,
                                        cache_dir, data))

\* after __init__, which creates none of the three attributes; the cache
\* directory is new or holds the files of an earlier session
CacheInit ==
    /\ current_validation_results = Unset
    /\ cached_validation_results = Unset
    /\ training_data = Unset
    /\ cache_dir \in {EmptyDir, FilledDir}
    /\ cache_op = [name |-> None, arg |-> None]
    /\ cache_raised = None
    /\ cache_before = cache_dir
    /\ saved_before = 0
    /\ saved = 0
    /\ cache_calls = 0

CacheNext ==
    \/ Save
    \/ Load
    \/ Train
    \/ ProcessTrainingData

-----------------------------------------------------------------------------
(* confluency_assessments.py: assess_confluency *)

\* the parameters of the decision tree; offsets and ratios are in thousandths
confluency_min_num_nuclei == 20
confluency_max_num_nuclei == 55
max_rel_com_offset == 300
max_eval_ratio == 1000

\* x > bound on Python floats: false for nan, true for +inf
GreaterThan(x, bound) ==
    \/ x.kind = "num" /\ x.v > bound
    \/ x = Inf

\* the features _calculate_nucleus_position_features hands to the rules; the
\* eigenvalue ratio is inf when the smaller eigenvalue is 0
ConfluencyCounts == {2, 19, 20, 21, 40, 54, 55, 56, 150}
ComOffsets == {Num(0), Num(299), Num(300), Num(301), Num(700)}
EvalRatios == {Num(0), Num(999), Num(1000), Num(1001), Num(8000), Inf, NaN}

\* lines 63-88 and 104 of assess_confluency
assess_confluency_inclusive(num_nuclei, rel_com_offset, eval_ratio) ==
    IF num_nuclei >= confluency_max_num_nuclei
    THEN [confluency_is_good |-> FALSE, confluency_label |-> "high"]
    ELSE IF num_nuclei <= confluency_min_num_nuclei
    THEN [confluency_is_good |-> FALSE, confluency_label |-> "low"]
    ELSE IF \/ GreaterThan(rel_com_offset, max_rel_com_offset)
            \/ GreaterThan(eval_ratio, max_eval_ratio)
    THEN [confluency_is_good |-> FALSE, confluency_label |-> "anisotropic"]
    ELSE [confluency_is_good |-> TRUE, confluency_label |-> "good"]

assess_confluency(num_nuclei, rel_com_offset, eval_ratio) ==
    IF num_nuclei > confluency_max_num_nuclei
    THEN [confluency_is_good |-> FALSE, confluency_label |-> "high"]
    ELSE IF num_nuclei < confluency_min_num_nuclei
    THEN [confluency_is_good |-> FALSE, confluency_label |-> "low"]
    ELSE IF \/ GreaterThan(rel_com_offset, max_rel_com_offset)
            \/ GreaterThan(eval_ratio, max_eval_ratio)
    THEN [confluency_is_good |-> FALSE, confluency_label |-> "anisotropic"]
    ELSE [confluency_is_good |-> TRUE, confluency_label |-> "good"]

NoConfluencyCall ==
    [num_nuclei |-> 0, rel_com_offset |-> Num(0), eval_ratio |-> Num(0),
     result |-> [confluency_is_good |-> FALSE, confluency_label |-> None]]

AssessConfluency ==
    /\ lib_pc = "idle"
    /\ \E num_nuclei \in ConfluencyCounts, rel_com_offset \in ComOffsets,
          eval_ratio \in EvalRatios :
          confluency_call' =
              [num_nuclei |-> num_nuclei, rel_com_offset |-> rel_com_offset,
               eval_ratio |-> eval_ratio,
               result |-> assess_confluency(num_nuclei, rel_com_offset, eval_ratio)]
    /\ lib_pc' = "assess_confluency"
    /\ UNCHANGED <<uint8_call, well_call, slice_call, interp_call>>
    /\ UNCHANGED <<fov_vars, ops_vars, svm_vars, cache_vars>>

-----------------------------------------------------------------------------
(* utils.py: to_uint8 *)

\* pixel intensities of a uint16 image
PixelValues == {0, 100, 150, 1000, 1500}

\* every image of n pixels
RECURSIVE ImagesOfLen(_)
ImagesOfLen(n) ==
    IF n = 0 THEN {<<>>}
    ELSE {Append(im, v) : im \in ImagesOfLen(n - 1), v \in PixelValues}

\* np.percentile(im, q) times 100, by linear interpolation between the two
\* nearest ranks of the sorted pixels
percentile100(im, q) ==
    LET sorted == SortSeq(im, LAMBDA a, b : a < b)
        rank100 == q * (Len(im) - 1)
        below == rank100 \div 100 + 1
        above == IF below < Len(im) THEN below + 1 ELSE below
    IN  100 * sorted[below] + (rank100 % 100) * (sorted[above] - sorted[below])

\* lines 32-36 of to_uint8 for one pixel, with intensities times 100
scale_pixel(pixel, minn100, maxx100) ==
    LET shifted == 100 * pixel - minn100                        \* im - minn
        floored == IF shifted < minn100 THEN 0 ELSE shifted     \* im[im < minn] = 0
        range == maxx100 - minn100
        clipped == IF floored > range THEN range ELSE floored   \* im[im > 1] = 1
    IN  (255 * clipped) \div range

to_uint8(im) ==
    LET minn100 == percentile100(im, 1)
        maxx100 == percentile100(im, 99)
    IN  IF minn100 = maxx100
        THEN [i \in 1..Len(im) |-> 0]
        ELSE [i \in 1..Len(im) |-> scale_pixel(im[i], minn100, maxx100)]

NoUint8Call == [im |-> <<>>, result |-> <<>>]

ToUint8 ==
    /\ lib_pc = "idle"
    /\ \E im \in ImagesOfLen(ImageLen) :
          uint8_call' = [im |-> im, result |-> to_uint8(im)]
    /\ lib_pc' = "to_uint8"
    /\ UNCHANGED <<confluency_call, well_call, slice_call, interp_call>>
    /\ UNCHANGED <<fov_vars, ops_vars, svm_vars, cache_vars>>

-----------------------------------------------------------------------------
(* utils.py: well_id_to_position *)

RowLetters == <<"A", "B", "C", "D", "E", "F", "G", "H">>
Digits == <<"0", "1", "2", "3", "4", "5", "6", "7", "8", "9">>
IsRowLetter(c) == \E i \in 1..Len(RowLetters) : RowLetters[i] = c
IsDigit(c) == \E i \in 1..Len(Digits) : Digits[i] = c
\* list('ABCDEFGH').index(row)
RowIndex(c) == (CHOOSE i \in 1..Len(RowLetters) : RowLetters[i] = c) - 1
DigitValue(c) == (CHOOSE i \in 1..Len(Digits) : Digits[i] = c) - 1

\* int(col) for a string of digits
RECURSIVE int(_)
int(digits) ==
    IF digits = <<>> THEN 0
    ELSE 10 * int(SubSeq(digits, 1, Len(digits) - 1)) + DigitValue(digits[Len(digits)])

\* the characters labels are made of here
LabelChars == {"A", "H", "I", "0", "1", "2", "3", "9"}

RECURSIVE LabelsOfLen(_)
LabelsOfLen(n) ==
    IF n = 0 THEN {<<>>}
    ELSE {Append(l, c) : l \in LabelsOfLen(n - 1), c \in LabelChars}

Labels == UNION {LabelsOfLen(n) : n \in 1..MaxLabelLen}

\* re.findall(r'^([A-H])([0-9]{1,2})$', well_id) finds something
matches_pattern(well_id) ==
    /\ Len(well_id) \in {2, 3}
    /\ IsRowLetter(well_id[1])
    /\ \A i \in 2..Len(well_id) : IsDigit(well_id[i])

well_id_to_position(well_id) ==
    IF ~matches_pattern(well_id)
    THEN \* result[0] on the empty list
         [raised |-> "IndexError", position |-> <<>>]
    ELSE [raised |-> None,
          position |-> <<RowIndex(well_id[1]),
                         int(SubSeq(well_id, 2, Len(well_id))) - 1>>]

NoWellCall == [well_id |-> <<>>, raised |-> None, position |-> <<>>]

WellIdToPosition ==
    /\ lib_pc = "idle"
    /\ \E well_id \in Labels :
          LET r == well_id_to_position(well_id)
          IN  well_call' = [well_id |-> well_id, raised |-> r.raised,
                            position |-> r.position]
    /\ lib_pc' = "well_id_to_position"
    /\ UNCHANGED <<confluency_call, uint8_call, slice_call, interp_call>>
    /\ UNCHANGED <<fov_vars, ops_vars, svm_vars, cache_vars>>

-----------------------------------------------------------------------------
(* operations.py: check_slice_for_overexposure called on its own *)

NoSliceCall ==
    [laser_power |-> 0, exposure_time |-> 0, snap_data |-> 0,
     result |-> [laser_power |-> 0, exposure_time |-> 0,
                 slice_was_overexposed |-> FALSE]]

CheckSliceForOverexposure ==
    /\ lib_pc = "idle"
    \* snap_data is given by its 99.9th percentile
    /\ \E laser_power \in {1000, 10000},
          exposure_time \in {40000, 49999, 50000, 50001, 500000},
          snap_data \in {0, 32767, 32768, 32769, 65535} :
          slice_call' =
              [laser_power |-> laser_power, exposure_time |-> exposure_time,
               snap_data |-> snap_data,
               result |-> check_slice_for_overexposure(
                              laser_power, exposure_time, snap_data,
                              autoexposure_settings)]
    /\ lib_pc' = "check_slice_for_overexposure"
    /\ UNCHANGED <<confluency_call, uint8_call, well_call, interp_call>>
    /\ UNCHANGED <<fov_vars, ops_vars, svm_vars, cache_vars>>

-----------------------------------------------------------------------------
(* utils.py: interpolate_focusdrive_positions_from_corners *)

\* the fraction num/den
Rat(num, den) == [num |-> num, den |-> den]

\* the position list of the file: one XYStage record per position
PositionListOfLen(len) ==
    [i \in 1..len |->
        [LABEL |-> i - 1,
         DEVICES |-> <<[DEVICE |-> "XYStage", X |-> Rat(10 * (i - 1), 1),
                        Y |-> 0, Z |-> 0, AXES |-> 2]>>]]

\* lines 74-77: the linear interp2d over rows = [0, 0, num_rows, num_rows],
\* cols = [0, num_cols, 0, num_cols], z = corner_positions flattened; its
\* value at (x, y) is the bilinear surface through the four points
interpolator(region_shape, corner_positions, x, y) ==
    LET num_rows == region_shape[1]
        num_cols == region_shape[2]
        z == corner_positions[1] \o corner_positions[2]
    IN  Rat(z[1] * (num_rows - x) * (num_cols - y) + z[2] * (num_rows - x) * y
              + z[3] * x * (num_cols - y) + z[4] * x * y,
            num_rows * num_cols)

\* lines 91-94: the physical column of list column col_ind in row row_ind
physical_col_ind_unflipped(row_ind, col_ind, num_cols) == col_ind
physical_col_ind(row_ind, col_ind, num_cols) ==
    IF row_ind % 2 = 0 THEN (num_cols - 1) - col_ind ELSE col_ind

\* lines 100-106
focusdrive_config(interpolated_position) ==
    [DEVICE |-> "FocusDrive", X |-> interpolated_position, Y |-> 0, Z |-> 0,
     AXES |-> 1]

\* lines 110-112: the loop over the positions of one well, from pos_ind on,
\* each turn doing position_list['POSITIONS'][ind]['DEVICES'].append(config)
RECURSIVE SitesLoop(_, _, _, _, _, _)
SitesLoop(position_list, num_positions_per_well, num_cols, row_ind, col_ind, pos_ind_config) ==
    LET pos_ind == pos_ind_config[1]
        config == pos_ind_config[2]
        ind == num_positions_per_well * (row_ind * num_cols + col_ind) + pos_ind
    IN  IF pos_ind >= num_positions_per_well THEN position_list
        ELSE SitesLoop([position_list EXCEPT ![ind + 1].DEVICES = Append(@, config)],
                       num_positions_per_well, num_cols, row_ind, col_ind,
                       <<pos_ind + 1, config>>)

\* lines 83-112: the loops over the wells of the region, from well
\* (row_ind, col_ind) on
RECURSIVE WellsLoop(_, _, _, _, _, _)
WellsLoop(position_list, region_shape, num_positions_per_well, corner_positions, row_ind, col_ind) ==
    LET num_rows == region_shape[1]
        num_cols == region_shape[2]
        interpolated_position ==
            interpolator(region_shape, corner_positions, row_ind,
                         physical_col_ind(row_ind, col_ind, num_cols))
    IN  IF row_ind >= num_rows THEN position_list
        ELSE IF col_ind >= num_cols
        THEN WellsLoop(position_list, region_shape, num_positions_per_well,
                       corner_positions, row_ind + 1, 0)
        ELSE WellsLoop(SitesLoop(position_list, num_positions_per_well, num_cols,
                                 row_ind, col_ind,
                                 <<0, focusdrive_config(interpolated_position)>>),
                       region_shape, num_positions_per_well, corner_positions,
                       row_ind, col_ind + 1)

\* the position list the function returns
interpolate_focusdrive_positions_from_corners(position_list, region_shape, num_positions_per_well, corner_positions) ==
    WellsLoop(position_list, region_shape, num_positions_per_well,
              corner_positions, 0, 0)

NoInterpCall ==
    [region_shape |-> <<0, 0>>, num_positions_per_well |-> 0,
     corner_positions |-> << <<0, 0>>, <<0, 0>> >>,
     position_list_file |-> <<>>, position_list |-> <<>>]

\* the file holds the positions of the region, or one position more
InterpolateFocusdrivePositionsFromCorners ==
    /\ lib_pc = "idle"
    \* corner_positions: ((top_left, top_right), (bottom_left, bottom_right))
    /\ \E region_shape \in (1..MaxRegionRows) \X (1..MaxRegionCols),
          num_positions_per_well \in 1..MaxSitesPerWell,
          corner_positions \in { << <<7000, 7100>>, <<7200, 7400>> >>,
                                 << <<7500, 7500>>, <<7440, 7620>> >> },
          extra \in {0, 1} :
          LET file == PositionListOfLen(
                          region_shape[1] * region_shape[2] * num_positions_per_well
                          + extra)
          IN  interp_call' =
                  [region_shape |-> region_shape,
                   num_positions_per_well |-> num_positions_per_well,
                   corner_positions |-> corner_positions,
                   position_list_file |-> file,
                   position_list |->
                       interpolate_focusdrive_positions_from_corners(
                           file, region_shape, num_positions_per_well,
                           corner_positions)]
    /\ lib_pc' = "interpolate_focusdrive_positions_from_corners"
    /\ UNCHANGED <<confluency_call, uint8_call, well_call, slice_call>>
    /\ UNCHANGED <<fov_vars, ops_vars, svm_vars, cache_vars>>

\* the caller is done with the result
LibReturn ==
    /\ lib_pc # "idle"
    /\ lib_pc' = "idle"
    /\ confluency_call' = NoConfluencyCall
    /\ uint8_call' = NoUint8Call
    /\ well_call' = NoWellCall
    /\ slice_call' = NoSliceCall
    /\ interp_call' = NoInterpCall
    /\ UNCHANGED <<fov_vars, ops_vars, svm_vars, cache_vars>>

LibInit ==
    /\ lib_pc = "idle"
    /\ confluency_call = NoConfluencyCall
    /\ uint8_call = NoUint8Call
    /\ well_call = NoWellCall
    /\ slice_call = NoSliceCall
    /\ interp_call = NoInterpCall

LibNext ==
    \/ AssessConfluency
    \/ ToUint8
    \/ WellIdToPosition
    \/ CheckSliceForOverexposure
    \/ InterpolateFocusdrivePositionsFromCorners
    \/ LibReturn

-----------------------------------------------------------------------------
vars == <<fov_vars, ops_vars, ext_vars>>

Init == FovInit /\ OpsInit /\ SvmInit /\ CacheInit /\ LibInit

\* the classifier on its own
InitFOV == Init /\ cache_dir = EmptyDir
SpecFOV == InitFOV /\ [][FovNext]_vars

\* the device operations on their own
InitOps == Init /\ self.mode = "prediction" /\ self.log_dir = None
                /\ cache_dir = EmptyDir
SpecOps == InitOps /\ [][OpsNext]_vars

\* the operations run to completion: the program is a single thread that
\* executes the loop of autoexposure without pause
SpecOpsFair == SpecOps /\ WF_vars(AutoexposureStep) /\ WF_vars(AutoexposureReturn)

\* the visitation manager on its own
SpecSVM == InitOps /\ [][SvmNext]_vars

\* the training data, the validation results and their files on their own
InitCache == Init /\ self.log_dir = None
SpecCache == InitCache /\ [][CacheNext]_vars

\* the functions on their own
SpecLib == InitOps /\ [][LibNext]_vars

-----------------------------------------------------------------------------
(* Properties of FOVClassifier.classify_raw_fov, under SpecFOV *)

CallOver == fov_pc \in {"returned", "raised"}

\* logging can go through: no log directory, or a position index was given
\* (a call with a log directory and no position index fails in
\* log_classification_info and returns nothing)
CanLog == self.log_dir = None \/ self.log_info.position_ind # NoPositionInd

\* the call has rejected the FOV for the given reason: the decision flag and
\* the logged decision are False, no stage exception leaves the call, and the
\* call returns False whenever logging can go through
Rejected(reason) ==
    /\ self.decision_flag = "False"
    /\ self.log_info.decision = "False"
    /\ self.log_info.reason = reason
    /\ fov_raised.type # "Exception"
    /\ (fov_pc = "returned" => fov_result = "False")
    /\ (CallOver /\ CanLog => fov_pc = "returned")

NotExecuted(stages) == \A i \in 1..Len(executed) : executed[i] \notin stages

\* C1: in prediction mode, when the body of a wrapped stage raises, the
\* exception does not leave classify_raw_fov, the final decision is False with
\* a reason and error info naming that stage, and no later stage body runs.
C1_StageErrorContained ==
    (self.mode = "prediction" /\ body_raised # None) =>
        /\ Rejected("Error in method FOVClassifier." \o body_raised)
        /\ self.log_info.error_info.method_name = body_raised
        /\ self.error_has_occured = "True"
        /\ executed # <<>>
        /\ executed[Len(executed)] = body_raised

C1_Witness ==
    /\ self.mode = "prediction"
    /\ fov_pc = "returned"
    /\ body_raised = "calculate_features"
    /\ fov_result = "False"
    /\ executed[Len(executed)] = "calculate_features"

FirstViolation(im) ==
    IF ~im.isarray THEN "Image is not an np.ndarray"
    ELSE IF im.dtype # "uint16" THEN "Image is not uint16"
    ELSE IF im.ndim # 2 THEN "Image is not 2D"
    ELSE IF im.shape # <<1024, 1024>> THEN "Image shape is not (1024, 1024)"
    ELSE None

Validated == fov_pc \notin {"idle", "validate"}

-----------------------------------------------------------------------------
(* Properties of the device operations, under SpecOps and SpecOpsFair *)

AutoexposureReturned == ops_pc = "autoexposure_returned"

\* the z positions of a sweep started at stage position z0: from
\* z0 + relative_bottom up to z0 + relative_top in step_size increments
NumSlices ==
    (stack_settings.relative_top - stack_settings.relative_bottom)
        \div stack_settings.step_size + 1
SliceZ(z0, i) ==
    z0 + stack_settings.relative_bottom + (i - 1) * stack_settings.step_size

\* C5: whenever autoexposure returns, its final pass snapped every slice from
\* start + relative_bottom up to start + relative_top in step_size increments,
\* each with the laser power and exposure time channel_settings holds at
\* return, and none of them over-exposed.
C5_CleanSweepOnReturn ==
    AutoexposureReturned =>
        /\ Len(ae_sweep) >= NumSlices
        /\ \A i \in 1..NumSlices : ae_sweep[i].z = SliceZ(ae_start.z, i)
        /\ \A i \in 1..Len(ae_sweep) :
              /\ ae_sweep[i].laser_power = channel_settings.laser_power
              /\ ae_sweep[i].exposure_time = channel_settings.exposure_time
              /\ ~ae_sweep[i].overexposed

\* C6: autoexposure returns the final laser power, the final exposure time and
\* a success flag that is always true.
C6_ReturnsThreeValues ==
    AutoexposureReturned =>
        /\ Len(ops_result) = 3
        /\ ops_result[1] = Num(channel_settings.laser_power)
        /\ ops_result[2] = Num(channel_settings.exposure_time)
        /\ ops_result[3] = PyTrue

\* the slice under the objective is over-exposed with the current settings
SliceOverexposed ==
    /\ ops_pc = "autoexposure_loop"
    /\ current_z_position <= stack_settings.relative_top
    /\ acquire_snap(scene, mm_core) > autoexposure_settings.max_intensity

\* C7: from an over-exposed slice the loop reaches its return; every step on
\* an over-exposed slice lowers the exposure time, or lowers the laser power
\* when the lowered exposure time would be below min_exposure_time.
C7_AutoexposureTerminates ==
    /\ SliceOverexposed ~> AutoexposureReturned
    /\ [][SliceOverexposed =>
            \/ /\ channel_settings'.exposure_time < channel_settings.exposure_time
               /\ channel_settings'.exposure_time
                     >= autoexposure_settings.min_exposure_time
               /\ channel_settings'.laser_power = channel_settings.laser_power
            \/ /\ (channel_settings.exposure_time * 4) \div 5
                     < autoexposure_settings.min_exposure_time
               /\ channel_settings'.laser_power < channel_settings.laser_power]_vars

C7_Witness ==
    /\ AutoexposureReturned
    /\ channel_settings.laser_power < ae_start.laser_power
    /\ channel_settings.exposure_time < ae_start.exposure_time
    /\ Len(ae_sweep) > 0

MoveZOver == ops_pc \in {"move_z_returned", "move_z_raised"}

IsInvalidArgument(e) == e.type \in {"ValueError", "TypeError"}

StageCommands == {"setPosition", "setRelativePosition"}

\* C8: move_z fails with an invalid-argument error when kind is neither
\* relative nor absolute, when position cannot be coerced to a float and when
\* it is not-a-number; it then makes no call on the core and the stage stays.
C8_MoveZRejects ==
    (/\ MoveZOver
     /\ \/ move_z_args.kind \notin {"relative", "absolute"}
        \/ move_z_args.position.kind \in {"str", "none", "nan"})
    => /\ ops_pc = "move_z_raised"
       /\ IsInvalidArgument(ops_raised)
       /\ core_calls = <<>>
       /\ mm_core.z = move_z_args.z

C8_Witness ==
    /\ ops_pc = "move_z_raised"
    /\ move_z_args.kind = "absolute"
    /\ move_z_args.position = NaN
    /\ ops_raised.origin = "position cannot be nan"
    /\ core_calls = <<>>

\* C9: move_z only commands the stage with a finite position: an infinite
\* position is rejected with an invalid-argument error before any call.
C9_OnlyFiniteCommands ==
    /\ \A i \in 1..Len(core_calls) :
          core_calls[i].f \in StageCommands => IsFinite(core_calls[i].arg)
    /\ (MoveZOver /\ move_z_args.position.kind = "inf"
          /\ move_z_args.kind \in {"relative", "absolute"})
       => (ops_pc = "move_z_raised" /\ IsInvalidArgument(ops_raised))

ChannelCalls ==
    <<"setConfig", "waitForConfig", "setProperty:laser", "setExposure",
      "setProperty:Gain">>

InAutofocus ==
    ops_pc \in {"autofocus_fullFocus", "autofocus_waitForSystem",
                "autofocus_returned", "autofocus_raised"}

ChannelApplied ==
    /\ Len(core_calls) >= 5
    /\ \A k \in 1..5 : core_calls[k].f = ChannelCalls[k]
    /\ \A k \in 1..5 : ops_raised.origin # ChannelCalls[k]

\* C10: autofocus applies the channel before it invokes fullFocus; an
\* exception of fullFocus never leaves autofocus; and when change_channel
\* succeeded the call ends by returning, its last call being waitForSystem,
\* made right after fullFocus, whether fullFocus succeeded or failed.
C10_AutofocusNonFatal ==
    InAutofocus =>
        /\ \A i \in 1..Len(core_calls) :
              core_calls[i].f = "fullFocus" =>
                  /\ i > 5
                  /\ \A k \in 1..5 : core_calls[k].f = ChannelCalls[k]
        /\ ops_raised.origin # "fullFocus"
        /\ (ops_pc \in {"autofocus_returned", "autofocus_raised"} /\ ChannelApplied)
           => /\ ops_pc = "autofocus_returned"
              /\ Len(core_calls) = 9
              /\ core_calls[8].f = "fullFocus"
              /\ core_calls[9].f = "waitForSystem"

C10_Witness ==
    /\ ops_pc = "autofocus_returned"
    /\ Len(core_calls) = 9
    /\ core_calls[8] = Call("fullFocus", Raised)
    /\ core_calls[9].f = "waitForSystem"
    /\ ops_raised = NoException

-----------------------------------------------------------------------------
(* Further properties of autoexposure, under SpecOps *)

InAutoexposure == ops_pc \in {"autoexposure_loop", "autoexposure_returned"}

\* the fields of a ChannelSettings other than its two working values
FixedFields(cs) ==
    [config_group |-> cs.config_group, config_name |-> cs.config_name,
     camera_name |-> cs.camera_name, laser_line |-> cs.laser_line,
     laser_name |-> cs.laser_name,
     default_laser_power |-> cs.default_laser_power,
     default_exposure_time |-> cs.default_exposure_time,
     default_camera_gain |-> cs.default_camera_gain,
     camera_gain |-> cs.camera_gain]

AboutToSnap ==
    /\ ops_pc = "autoexposure_loop"
    /\ current_z_position <= stack_settings.relative_top

\* C26: after an over-exposed slice the lowered laser power and exposure time
\* are on the hardware and the stage is at the first slice of the sweep (start
\* position + relative_bottom) before the next snap; after a slice that is not
\* over-exposed the stage is step_size above it.
C26_ResetsToFirstSlice ==
    [][AboutToSnap =>
          IF SliceOverexposed
          THEN /\ mm_core'.laser_power = channel_settings'.laser_power
               /\ mm_core'.exposure = channel_settings'.exposure_time
               /\ mm_core'.z = ae_start.z + stack_settings.relative_bottom
          ELSE mm_core'.z = mm_core.z + stack_settings.step_size]_vars

\* C30: in a run of autoexposure that starts with the laser power at or above
\* min_laser_power, the laser power in channel_settings and on the hardware
\* stays at or above min_laser_power.
C30_LaserPowerFloor ==
    (InAutoexposure /\ ae_start.laser_power >= autoexposure_settings.min_laser_power) =>
        /\ channel_settings.laser_power >= autoexposure_settings.min_laser_power
        /\ mm_core.laser_power >= autoexposure_settings.min_laser_power

-----------------------------------------------------------------------------
(* Properties of the logging of classify_raw_fov, under SpecFOV *)

\* a call made with a log directory configured and without a position index
\* is running
UnindexedCallRunning ==
    /\ fov_pc \notin {"idle", "returned", "raised"}
    /\ self.log_dir # None
    /\ self.log_info.position_ind = NoPositionInd

InvalidArgumentRaised == fov_pc = "raised" /\ fov_raised.type = "ValueError"

\* C16 as stated: every such call ends with an invalid-argument error, and no
\* step of it writes a CSV row or an image.
C16_Original ==
    [][UnindexedCallRunning =>
          /\ fov_csv' = fov_csv
          /\ fov_images' = fov_images
          /\ CallOver' => InvalidArgumentRaised']_vars

\* C16, amended: with a log directory configured, a classify_raw_fov call
\* without a position index never returns and writes no CSV row and no image;
\* in prediction mode it always ends with the ValueError of
\* log_classification_info, in training mode it ends with that error unless
\* the exception of a stage leaves the call first.
C16_PositionIndRequired ==
    [][UnindexedCallRunning =>
          /\ fov_csv' = fov_csv
          /\ fov_images' = fov_images
          /\ CallOver' =>
                /\ fov_pc' = "raised"
                /\ \/ /\ InvalidArgumentRaised'
                      /\ fov_raised'.origin = "log_classification_info"
                   \/ /\ self.mode = "training"
                      /\ fov_raised'.type = "Exception"
                      /\ fov_raised'.origin = body_raised']_vars

C16_Witness ==
    /\ self.mode = "prediction"
    /\ self.log_dir # None
    /\ self.log_info.position_ind = NoPositionInd
    /\ InvalidArgumentRaised
    /\ fov_raised.origin = "log_classification_info"
    /\ self.log_info.decision = "True"

\* C17: with an external listener attached, every classify_raw_fov call that
\* returns delivers exactly one message to it, whether or not a log directory
\* is configured: the acceptance message when the decision is true, otherwise
\* the rejection message with the recorded reason.
C17_ListenerGetsOneMessage ==
    [][(self.external_event_logger # None /\ ~CallOver /\ fov_pc' = "returned") =>
          /\ messages'.count = messages.count + 1
          /\ messages'.last = LoggerMessage(self.log_info)
          /\ messages'.last.accepted <=> fov_result' = "True"]_vars

-----------------------------------------------------------------------------
(* Properties of the decision state of classify_raw_fov, under SpecFOV *)

CallStarts == fov_pc = "idle" /\ fov_pc' = "validate"
Decided == self.decision_has_been_made = "True"

\* C24: a classify_raw_fov call starts with no decision made, no error and
\* nothing logged as decided; and once a make_decision has taken effect in a
\* call, no later step of that call changes the decision flag or the logged
\* decision, reason and error info.
C24_DecidesAtMostOnce ==
    [][/\ CallStarts =>
             /\ self'.decision_has_been_made = "False"
             /\ self'.error_has_occured = "False"
             /\ self'.log_info.decision = None
             /\ self'.log_info.reason = None
       /\ (fov_pc # "idle" /\ Decided) =>
             /\ self'.decision_has_been_made = "True"
             /\ self'.decision_flag = self.decision_flag
             /\ self'.log_info.decision = self.log_info.decision
             /\ self'.log_info.reason = self.log_info.reason
             /\ self'.log_info.error_info = self.log_info.error_info]_vars

\* an early rejection stood against the later make_decision calls
C24_Witness ==
    /\ fov_pc = "log"
    /\ fov_calls = 2
    /\ Decided
    /\ self.error_has_occured = "False"
    /\ self.log_info.reason \notin {None, "Model prediction"}

\* C29: in prediction mode, when classify_raw_fov logs and returns, a decision
\* has taken effect in this call, only one has, and the flag returned is that
\* decision and not what an earlier call left in decision_flag.
C29_ReturnsThisCallsDecision ==
    /\ []((self.mode = "prediction" /\ fov_pc \in {"log", "returned"}) =>
            /\ Decided
            /\ self.log_info.decision \in {"True", "False"}
            /\ self.decision_flag = self.log_info.decision
            /\ fov_pc = "returned" => fov_result = self.log_info.decision)
    /\ [][(self.mode = "prediction" /\ fov_pc # "idle"
             /\ self.log_info.decision # None) =>
                self'.log_info.decision = self.log_info.decision]_vars

\* the second call fails in a stage after the first call accepted
C29_Witness ==
    /\ self.mode = "prediction"
    /\ fov_pc = "log"
    /\ fov_calls = 2
    /\ fov_csv.last_row.decision = "True"
    /\ body_raised # None
    /\ self.decision_flag = "False"

-----------------------------------------------------------------------------
(* Properties of StageVisitationManager, under SpecSVM *)

Constructed == svm_pc # "none"
NumWells == Len(svm.well_ids_to_visit)
StageCommanded == stage_attempts # <<>>

\* C11: the k-th go_to_next_well call makes the k-th well of the list the
\* current well and leaves the later wells unvisited, in order; after the
\* last well the unvisited list is empty and a further call fails without a
\* stage command.
C11_VisitsInListOrder ==
    Constructed =>
        /\ svm_calls \in 1..NumWells =>
              /\ svm.current_well_id = svm.well_ids_to_visit[svm_calls]
              /\ Reversed(svm.unvisited_well_ids)
                    = SubSeq(svm.well_ids_to_visit, svm_calls + 1, NumWells)
        /\ svm_calls >= NumWells => svm.unvisited_well_ids = <<>>
        /\ svm_calls > NumWells =>
              /\ svm_pc = "raised"
              /\ svm_raised = "IndexError"
              /\ ~StageCommanded
              /\ NumWells > 0 =>
                    svm.current_well_id = svm.well_ids_to_visit[NumWells]

C11_Witness ==
    /\ NumWells = 3
    /\ svm_calls = 4
    /\ svm_raised = "IndexError"
    /\ svm.well_ids_to_visit = <<B9, C3, B9>>

\* C12: the stage-motion command is attempted at most twice per call; a
\* second attempt is made exactly when the first raised the remote-call
\* error, its error (if any) is what the call raises, and any other error of
\* the first attempt is raised without a retry.
C12_RetriesOnceOnRemoteError ==
    /\ Len(stage_attempts) <= 2
    /\ Len(stage_attempts) = 2 <=>
          (StageCommanded /\ stage_attempts[1].outcome = "Py4JJavaError")
    /\ StageCommanded =>
          /\ \A i \in 1..Len(stage_attempts) :
                stage_attempts[i].ind = stage_attempts[1].ind
          /\ LET last == stage_attempts[Len(stage_attempts)].outcome
             IN  svm_raised = (IF last = "arrived" THEN None ELSE last)

C12_Witness ==
    /\ Len(stage_attempts) = 2
    /\ stage_attempts[2].outcome = "Py4JJavaError"
    /\ svm_raised = "Py4JJavaError"

\* C13: when the position list is not empty and none of its labels starts
\* with the well id being visited, go_to_next_well fails with a lookup error
\* and does not command the stage.
NoLabelMatches ==
    /\ svm_calls \in 1..NumWells
    /\ svm.position_list # <<>>
    /\ \A i \in 1..Len(svm.position_list) :
          ~startswith(svm.position_list[i], svm.current_well_id)

C13_NoMatchFails ==
    NoLabelMatches =>
        /\ svm_pc = "raised"
        /\ svm_raised \in {"IndexError", "UnboundLocalError", "KeyError", "LookupError"}
        /\ ~StageCommanded

\* the well id of an HCS site label: what precedes '-Site_'
LabelWellId(label) ==
    LET dashes == {i \in 1..Len(label) : label[i] = "-"}
    IN  IF dashes = {} THEN label
        ELSE SubSeq(label, 1, (CHOOSE i \in dashes : \A j \in dashes : i <= j) - 1)

\* the indices (from 0) of the positions that lie in the well
PositionsInWell(well_id) ==
    {i \in 0..(Len(svm.position_list) - 1) :
        LabelWellId(svm.position_list[i + 1]) = well_id}

\* C28: when the position list holds a position of the well w that
\* go_to_next_well popped, every stage command of the call goes to the first
\* position whose label's well id equals w, never to a position of another
\* well whose id begins with w.
C28_GoesToTheWellItself ==
    (StageCommanded /\ PositionsInWell(svm.current_well_id) # {}) =>
        \A k \in 1..Len(stage_attempts) :
            /\ stage_attempts[k].ind \in PositionsInWell(svm.current_well_id)
            /\ \A i \in PositionsInWell(svm.current_well_id) :
                  stage_attempts[k].ind <= i

-----------------------------------------------------------------------------
(* Properties of FOVClassifier.save, under SpecCache *)

SaveCalled == cache_op.name = "save"
HoldsValidationResults == current_validation_results \in ValidationResults

\* C14: in training mode with validation results present, a save() made
\* after a successful save() fails with ValueError and leaves both files as
\* they were when overwrite is False, and succeeds and rewrites both files
\* from the current training data and validation results when overwrite is
\* True.
C14_SecondSaveNeedsOverwrite ==
    (/\ SaveCalled
     /\ self.mode = "training"
     /\ HoldsValidationResults
     /\ saved_before >= 1) =>
        /\ cache_op.arg = "False" =>
              /\ cache_raised = "ValueError"
              /\ cache_dir = cache_before
              /\ cache_dir.training_data_csv # Absent
              /\ cache_dir.validation_results_json # Absent
        /\ cache_op.arg = "True" =>
              /\ cache_raised = None
              /\ cache_dir.training_data_csv = training_data
              /\ cache_dir.validation_results_json = current_validation_results

C14_Witness ==
    /\ SaveCalled
    /\ self.mode = "training"
    /\ saved_before = 1
    /\ cache_op.arg = "False"
    /\ cache_raised = "ValueError"
    /\ cache_dir.validation_results_json # current_validation_results
    /\ HoldsValidationResults

\* C15: save() fails with ValueError and writes no file whenever the mode is
\* not 'training' or no validation results are held, also when neither
\* train() nor load() has run since construction.
C15_SaveRefused ==
    (SaveCalled /\ (self.mode # "training" \/ ~HoldsValidationResults)) =>
        /\ cache_raised = "ValueError"
        /\ cache_dir = cache_before

\* a call of the method name is made in this step
Calls(name) == cache_calls' = cache_calls + 1 /\ cache_op'.name = name

-----------------------------------------------------------------------------
(* Properties of assess_confluency, to_uint8 and well_id_to_position, under
   SpecLib *)

SeqMin(q) == CHOOSE v \in {q[i] : i \in 1..Len(q)} : \A j \in 1..Len(q) : v <= q[j]
SeqMax(q) == CHOOSE v \in {q[i] : i \in 1..Len(q)} : \A j \in 1..Len(q) : v >= q[j]

\* C19: for an image whose 1st and 99th percentiles differ, every output
\* value is in 0..255, pixels at or below the 1st percentile map to 0, pixels
\* at or above the 99th percentile map to 255, the output minimum is 0 and
\* the maximum 255, and a brighter pixel never maps to a darker value.
C19_RescalesBetweenPercentiles ==
    (/\ lib_pc = "to_uint8"
     /\ percentile100(uint8_call.im, 1) # percentile100(uint8_call.im, 99)) =>
        LET im == uint8_call.im
            out == uint8_call.result
            px == 1..Len(im)
        IN  /\ Len(out) = Len(im)
            /\ \A i \in px : out[i] \in 0..255
            /\ \A i \in px : 100 * im[i] <= percentile100(im, 1) => out[i] = 0
            /\ \A i \in px : 100 * im[i] >= percentile100(im, 99) => out[i] = 255
            /\ SeqMin(out) = 0
            /\ SeqMax(out) = 255
            /\ \A i, j \in px : im[i] <= im[j] => out[i] <= out[j]

\* a row letter A-H followed by a column number 1-12
IsPlateLabel(well_id) ==
    \E r \in 1..8, c \in 1..12 :
        well_id = <<RowLetters[r]>> \o
                  (IF c < 10 THEN <<Digits[c + 1]>>
                   ELSE <<"1", Digits[c - 10 + 1]>>)

\* C20: well_id_to_position succeeds exactly on a row letter A-H followed by
\* a column number 1-12 and returns the row index in 0..7 and the column
\* number minus one in 0..11; every other label fails.
C20_ParsesPlateLabels ==
    lib_pc = "well_id_to_position" =>
        /\ well_call.raised = None <=> IsPlateLabel(well_call.well_id)
        /\ well_call.raised = None =>
              /\ well_call.position[1] \in 0..7
              /\ well_call.position[2] \in 0..11
              /\ RowLetters[well_call.position[1] + 1] = well_call.well_id[1]
        /\ well_call.well_id = <<"A", "1">> => well_call.position = <<0, 0>>
        /\ well_call.well_id = <<"H", "1", "2">> => well_call.position = <<7, 11>>

-----------------------------------------------------------------------------
(* Properties of check_slice_for_overexposure and of
   interpolate_focusdrive_positions_from_corners, under SpecLib *)

\* C25: with the 99.9th percentile not above max_intensity the laser power
\* and exposure time come back unchanged with flag false; above it the flag
\* is true and the result is (exposure time x 0.8, same laser power) when
\* that exposure time is not below min_exposure_time, and
\* (default_exposure_time, laser power x 0.8) when it is.
C25_CheckSlice ==
    lib_pc = "check_slice_for_overexposure" =>
        LET c == slice_call
            r == slice_call.result
            a == autoexposure_settings
            new_exposure_time == (c.exposure_time * 4) \div 5
        IN  /\ r.slice_was_overexposed <=> c.snap_data > a.max_intensity
            /\ ~r.slice_was_overexposed =>
                  /\ r.laser_power = c.laser_power
                  /\ r.exposure_time = c.exposure_time
            /\ (r.slice_was_overexposed /\ new_exposure_time >= a.min_exposure_time) =>
                  /\ r.exposure_time = new_exposure_time
                  /\ r.laser_power = c.laser_power
            /\ (r.slice_was_overexposed /\ new_exposure_time < a.min_exposure_time) =>
                  /\ r.exposure_time = a.default_exposure_time
                  /\ r.laser_power = (c.laser_power * 4) \div 5

C25_Witness ==
    /\ lib_pc = "check_slice_for_overexposure"
    /\ slice_call.snap_data = 32769
    /\ slice_call.exposure_time = 49999
    /\ slice_call.laser_power = 10000
    /\ slice_call.result.laser_power = 8000
    /\ slice_call.result.exposure_time = 50000

InterpolationOver == lib_pc = "interpolate_focusdrive_positions_from_corners"

\* the list holds exactly the positions of the region
ListFitsRegion ==
    Len(interp_call.position_list_file)
        = interp_call.region_shape[1] * interp_call.region_shape[2]
            * interp_call.num_positions_per_well

\* the well of the position with index ind (from 0), by its place in the list
ListWell(ind) == ind \div interp_call.num_positions_per_well
ListRow(ind) == ListWell(ind) \div interp_call.region_shape[2]
ListCol(ind) == ListWell(ind) % interp_call.region_shape[2]
\* serpentine: an even row runs from the last physical column to the first
PhysicalCol(ind) ==
    IF ListRow(ind) % 2 = 0
    THEN interp_call.region_shape[2] - 1 - ListCol(ind)
    ELSE ListCol(ind)

\* the FocusDrive value given to the position with index ind
FocusDriveX(ind) ==
    LET devices == interp_call.position_list[ind + 1].DEVICES
    IN  devices[Len(devices)].X

SameFraction(p, q) == p.num * q.den = q.num * p.den

\* C21: for a list that holds exactly the positions of the region, every
\* position gets exactly one FocusDrive record appended, labels, order and
\* earlier device records stay, the sites of one well get the same value, and
\* the value is the interpolant at the well's row and physical column.
C21_OneRecordPerSite ==
    (InterpolationOver /\ ListFitsRegion) =>
        LET before == interp_call.position_list_file
            after == interp_call.position_list
        IN  /\ Len(after) = Len(before)
            /\ \A i \in 1..Len(before) :
                  /\ after[i].LABEL = before[i].LABEL
                  /\ Len(after[i].DEVICES) = Len(before[i].DEVICES) + 1
                  /\ SubSeq(after[i].DEVICES, 1, Len(before[i].DEVICES))
                        = before[i].DEVICES
                  /\ after[i].DEVICES[Len(after[i].DEVICES)].DEVICE = "FocusDrive"
                  /\ SameFraction(
                         FocusDriveX(i - 1),
                         interpolator(interp_call.region_shape,
                                      interp_call.corner_positions,
                                      ListRow(i - 1), PhysicalCol(i - 1)))
            /\ \A i, j \in 1..Len(before) :
                  ListWell(i - 1) = ListWell(j - 1) =>
                      FocusDriveX(i - 1) = FocusDriveX(j - 1)

C21_Witness ==
    /\ InterpolationOver
    /\ ListFitsRegion
    /\ interp_call.region_shape = <<2, 3>>
    /\ interp_call.num_positions_per_well = 2
    /\ FocusDriveX(0) # FocusDriveX(4)
    /\ FocusDriveX(0) # FocusDriveX(6)

\* C22: the wells at the four corners of the region, (0, 0), (0, num_cols-1),
\* (num_rows-1, 0) and (num_rows-1, num_cols-1) in row and physical column,
\* get exactly the top-left, top-right, bottom-left and bottom-right
\* measured values.
C22_CornersGetMeasuredValues ==
    (InterpolationOver /\ ListFitsRegion) =>
        LET num_rows == interp_call.region_shape[1]
            num_cols == interp_call.region_shape[2]
            corners == interp_call.corner_positions
            measured(row, col) ==
                corners[IF row = 0 THEN 1 ELSE 2][IF col = 0 THEN 1 ELSE 2]
        IN  \A i \in 1..Len(interp_call.position_list) :
                (/\ num_rows > 1
                 /\ num_cols > 1
                 /\ ListRow(i - 1) \in {0, num_rows - 1}
                 /\ PhysicalCol(i - 1) \in {0, num_cols - 1}) =>
                    SameFraction(FocusDriveX(i - 1),
                                 Rat(measured(ListRow(i - 1), PhysicalCol(i - 1)), 1))

====
